---- MODULE Spec2Model ----
(***************************************************************************)
(* A model of goday (src/main.go): the Bubble Tea update loop, the daemon  *)
(* start command with its stderr reader, the daily workflow with note      *)
(* materialization and the attach retry loop, and the section extractor.   *)
(*                                                                         *)
(* Text is modelled at token level: a line is a sequence of tokens, where  *)
(* "*", " " and "\t" are the single characters and every other token is a  *)
(* run of characters holding no white space and no "*".  A file is a       *)
(* sequence of lines (what bufio.Scanner yields).                          *)
(***************************************************************************)
EXTENDS Integers, Sequences, FiniteSets, TLC

\* ------------------------------------------------------------- bounds
MaxDay == 2
MaxStarts == 2
MaxStreamLen == 2
MaxWorkflows == 2
MaxFileLen == 3

\* ---------------------------------------------- configuration constants
SourceHeader == <<"*", " ", "For", " ", "tomorrow">>
DestinationHeader == <<"*", " ", "TODO">>
DoomLoadedMsg == <<"Doom", " ", "loaded", " ">>
\* The retry loop of runDailyWorkflow runs while i < 4 (RetryLimitOff: while
\* i < 3, the bound of a loop that counted the first attempt).
RetryLimitOff == 4 - 1

RetryLimit == 4

\* ------------------------------------------------------ string helpers
WhiteSpace == {" ", "\t"}

TopLevelPrefix == <<"*", " ">>

RECURSIVE TrimLeft(_)
TrimLeft(line) ==
  IF line # <<>> /\ Head(line) \in WhiteSpace THEN TrimLeft(Tail(line)) ELSE line

RECURSIVE TrimRight(_)
TrimRight(line) ==
  IF line # <<>> /\ line[Len(line)] \in WhiteSpace
  THEN TrimRight(SubSeq(line, 1, Len(line) - 1))
  ELSE line

TrimSpace(line) == TrimRight(TrimLeft(line))

HasPrefix(line, prefix) ==
  /\ Len(line) >= Len(prefix)
  /\ SubSeq(line, 1, Len(prefix)) = prefix

Contains(line, sub) ==
  \E i \in 1..(Len(line) + 1) :
    /\ i + Len(sub) - 1 <= Len(line)
    /\ SubSeq(line, i, i + Len(sub) - 1) = sub

\* --------------------------------------------------- section extractor
\* The scanner loop of extractSection from line i on, with the loop's state.
RECURSIVE ScanLines(_, _, _, _, _)
ScanLines(file, targetHeader, i, capture, lines) ==
  IF i > Len(file) THEN lines
  ELSE IF TrimSpace(file[i]) = targetHeader
       THEN ScanLines(file, targetHeader, i + 1, TRUE, lines)
  ELSE IF capture
       THEN IF HasPrefix(file[i], TopLevelPrefix)
            THEN lines
            ELSE ScanLines(file, targetHeader, i + 1, capture, Append(lines, file[i]))
  ELSE ScanLines(file, targetHeader, i + 1, capture, lines)

extractSection(file, targetHeader) == ScanLines(file, targetHeader, 1, FALSE, <<>>)

\* ------------------------------------------------------------- state
VARIABLES
  status,          \* "running", "quit" (tea.Quit) or "panicked" (panic in a goroutine)
  projects,        \* the backing array of model.projects, shared by every copy of the model
  nproj,           \* len(m.projects) of the model the update loop holds
  cursor,          \* m.cursor of the model the update loop holds (0-based)
  daemonSpunUp,    \* m.daemonSpunUp: the DAEMON status line shows ONLINE
  saved,           \* what saveConfig last wrote: each entry's path and linkage
  clock,           \* time.Now(), as a logical clock
  day,             \* today's calendar date
  roots,           \* the project directories that exist on disk
  files,           \* the note files on disk: path -> lines
  diskFaulty,      \* writes to the disk may fail (disk full, device error)
  wf,              \* the runDailyWorkflow commands: one record per "enter"
  daemon,          \* the StartDaemonMsg commands: reader goroutine and waiting command
  startMsgs,       \* StartDaemonMsg values not yet handled by Update
  readyMsgs,       \* DaemonReadyMsg values not yet handled by Update
  backendsStarted, \* emacs --daemon processes started by cmd.Start()
  xfile, xmarker, xlines, xdone  \* a call of extractSection: arguments and result

vars == <<status, projects, nproj, cursor, daemonSpunUp, saved, clock, day, roots,
          files, diskFaulty, wf, daemon, startMsgs, readyMsgs, backendsStarted,
          xfile, xmarker, xlines, xdone>>

uiVars == <<projects, nproj, cursor, daemonSpunUp, saved, clock>>
envVars == <<day, roots, files, diskFaulty>>
xVars == <<xfile, xmarker, xlines, xdone>>

\* ------------------------------------------------------- data models
NoPath == <<>>

Project(path, opened) ==
  [Path |-> path, Starred |-> FALSE, LastOpened |-> opened,
   LastFileCreated |-> NoPath, PreviousFileCreated |-> NoPath]

ZeroProject == Project("", 0)

\* The registry loadConfig returns: sorted, most recently opened first. The
\* directory of p1 exists, that of p2 does not.
LoadedProjects == <<Project("p1", 2), Project("p2", 1)>>

\* filepath.Join(projectPath, date + FileExtension)
NotePath(projectPath, date) == <<projectPath, date>>

EmptyLine == <<>>
PlaceholderLine == <<" ", " ", "[", " ", "]", " ">>
TitleLine(date) == <<"#+TITLE:", " ", "Daily", " ", "Note", " ", ToString(date)>>

\* What a user may leave in a note: tasks under the unfinished-work header, the
\* header repeated further down, or no such header.
UserNotes ==
  { <<DestinationHeader, <<"-", " ", "done">>, SourceHeader,
      <<"-", " ", "task1">>, <<"-", " ", "task2">>>>,
    <<SourceHeader, <<"-", " ", "task1">>, SourceHeader, <<"-", " ", "task2">>>>,
    <<DestinationHeader, <<"-", " ", "task1">>>> }

\* Lines emacs --daemon may print on stderr.
StderrLines ==
  { <<"Loading", " ", "init.el">>,
    <<"Doom", " ", "loaded">>,
    <<"Doom", " ", "loaded", " ", "42", " ", "packages">>,
    <<">", " ", "Doom", " ", "loaded", " ", "in", " ", "2s">> }

\* A command of key "enter" not yet issued. refSeen, rootOk, todayExisted,
\* created, attempts and sleeps record what the workflow saw and did; createErr
\* that os.Create returned an error, ioOk that every write, the flush and the
\* close of the note returned none.
IdleWf ==
  [pc |-> "idle", cursor |-> 0, n |-> 0, selectedPath |-> "",
   todayPath |-> NoPath, yesterdayPath |-> NoPath, contentToMigrate |-> <<>>,
   refSeen |-> [exists |-> FALSE, lines |-> <<>>],
   rootOk |-> FALSE, todayExisted |-> FALSE, created |-> FALSE,
   createErr |-> FALSE, ioOk |-> FALSE,
   attempts |-> 0, sleeps |-> 0, i |-> 0, opened |-> FALSE]

\* A start command not yet issued: rpc is the reader goroutine's place in
\* runEmacsDaemon, wpc the command's (waiting in <-ch, or ready).
IdleDaemon ==
  [rpc |-> "none", wpc |-> "none", linesRead |-> 0, markerLines |-> 0,
   firstMarker |-> 0, signals |-> 0, readyAt |-> 0]

Workflows == 1..MaxWorkflows
Daemons == 1..MaxStarts

\* ------------------------------------------------------- persistence
\* saveConfig(c): the slice c = array[0:n] is written out. Of each entry the
\* path and the linkage are kept here (saveConfigNoLinkage: a registry file
\* that holds the paths only).
Entry(p) ==
  [Path |-> p.Path, LastFileCreated |-> p.LastFileCreated,
   PreviousFileCreated |-> p.PreviousFileCreated]

saveConfigNoLinkage(array, n) == [k \in 1..n |-> Entry(Project(array[k].Path, 0))]

saveConfig(array, n) == [k \in 1..n |-> Entry(array[k])]

\* The comparison function of sortProjects and loadConfig.
Less(a, b) ==
  IF a.Starred # b.Starred THEN a.Starred ELSE a.LastOpened > b.LastOpened

\* sort.Slice on array[0:n], in place: any ordering the comparison allows (the
\* sort is not stable); the array beyond n is untouched.
sortProjects(array, n) ==
  { s \in [1..Len(array) -> {array[k] : k \in 1..Len(array)}] :
      /\ \A k \in (n + 1)..Len(array) : s[k] = array[k]
      /\ \E perm \in [1..n -> 1..n] :
           /\ \A a, b \in 1..n : a # b => perm[a] # perm[b]
           /\ \A k \in 1..n : s[k] = array[perm[k]]
      /\ \A a, b \in 1..n : a < b => ~Less(s[b], s[a]) }

\* slices.Delete(array[0:n], c, c+1): the elements after c move down one place;
\* the vacated last place is zeroed (Go 1.22 on) or keeps its old value (Go 1.21).
slicesDelete(array, n, c, zeroed) ==
  [k \in 1..Len(array) |->
     IF k < c + 1 \/ k > n THEN array[k]
     ELSE IF k < n THEN array[k + 1]
     ELSE IF zeroed THEN ZeroProject ELSE array[k]]

\* ------------------------------------------------- note materializer
\* The lines createDailyNote writes through the bufio.Writer
\* (NoteLinesNoPlaceholder: the same without the else branch).
NoteLinesNoPlaceholder(date, contentToMigrate) ==
  <<TitleLine(date), EmptyLine, DestinationHeader>>
    \o contentToMigrate \o <<EmptyLine, SourceHeader>>

NoteLines(date, contentToMigrate) ==
  <<TitleLine(date), EmptyLine, DestinationHeader>>
    \o (IF Len(contentToMigrate) > 0 THEN contentToMigrate ELSE <<PlaceholderLine>>)
    \o <<EmptyLine, SourceHeader>>

\* The two assignments after f.Close() (ShiftLinkageSwapped: the same two in
\* the other order).
ShiftLinkageSwapped(p, todayFile) ==
  [p EXCEPT !.LastFileCreated = todayFile, !.PreviousFileCreated = todayFile]

ShiftLinkage(p, todayFile) ==
  [p EXCEPT !.PreviousFileCreated = p.LastFileCreated, !.LastFileCreated = todayFile]

\* The record at m.cursor when createDailyNote returns after its os.Create:
\* untouched after the return on err, shifted after f.Close()
\* (MaterializedUnchecked: the same without the test of err).
MaterializedUnchecked(p, todayFile, err) == ShiftLinkage(p, todayFile)

Materialized(p, todayFile, err) == IF err THEN p ELSE ShiftLinkage(p, todayFile)

\* os.Stat(projectPath) does not report ErrNotExist (RootExistsAlways: the
\* workflow without that test).
RootExistsAlways(projectPath) == TRUE

RootExists(projectPath) == projectPath \in roots

\* os.Stat(path) returns no error (StatNever: it always returns one).
StatNever(path) == FALSE

Stat(path) == path \in DOMAIN files

Running == status = "running"

\* -------------------------------------------------------- update loop
\* Update, case StartDaemonMsg: the returned command makes the channel, starts
\* the goroutine running runEmacsDaemon and blocks receiving from the channel.
UpdateStartDaemonMsg ==
  /\ Running
  /\ startMsgs > 0
  /\ \E d \in Daemons :
       /\ daemon[d].rpc = "none"
       /\ \A e \in Daemons : e < d => daemon[e].rpc # "none"
       /\ daemon' = [daemon EXCEPT ![d].rpc = "init", ![d].wpc = "waiting"]
  /\ startMsgs' = startMsgs - 1
  /\ UNCHANGED <<status, uiVars, envVars, wf, readyMsgs, backendsStarted, xVars>>

\* Update, case DaemonReadyMsg.
UpdateDaemonReadyMsg ==
  /\ Running
  /\ readyMsgs > 0
  /\ readyMsgs' = readyMsgs - 1
  /\ daemonSpunUp' = TRUE
  /\ UNCHANGED <<status, projects, nproj, cursor, saved, clock, envVars, wf, daemon,
                 startMsgs, backendsStarted, xVars>>

\* Update, keys "ctrl+c" and "q".
KeyQuit ==
  /\ Running
  /\ status' = "quit"
  /\ UNCHANGED <<uiVars, envVars, wf, daemon, startMsgs, readyMsgs, backendsStarted, xVars>>

\* Update, keys "up" and "k".
KeyUp ==
  /\ Running
  /\ cursor' = IF cursor > 0 THEN cursor - 1 ELSE cursor
  /\ UNCHANGED <<status, projects, nproj, daemonSpunUp, saved, clock, envVars, wf,
                 daemon, startMsgs, readyMsgs, backendsStarted, xVars>>

\* Update, keys "down" and "j".
KeyDown ==
  /\ Running
  /\ cursor' = IF cursor < nproj - 1 THEN cursor + 1 ELSE cursor
  /\ UNCHANGED <<status, projects, nproj, daemonSpunUp, saved, clock, envVars, wf,
                 daemon, startMsgs, readyMsgs, backendsStarted, xVars>>

\* Update, keys "d" and "x".
KeyDelete ==
  /\ Running
  /\ nproj > 0
  /\ \E zeroed \in BOOLEAN :
       projects' = slicesDelete(projects, nproj, cursor, zeroed)
  /\ nproj' = nproj - 1
  /\ cursor' = IF cursor >= nproj' /\ cursor > 0 THEN cursor - 1 ELSE cursor
  /\ saved' = saveConfig(projects', nproj')
  /\ UNCHANGED <<status, daemonSpunUp, clock, envVars, wf, daemon, startMsgs,
                 readyMsgs, backendsStarted, xVars>>

\* Update, key "s".
KeyStar ==
  /\ Running
  /\ nproj > 0
  /\ LET starred == [projects EXCEPT ![cursor + 1].Starred = ~projects[cursor + 1].Starred]
     IN  projects' \in sortProjects(starred, nproj)
  /\ cursor' = IF cursor >= nproj THEN 0 ELSE cursor
  /\ saved' = saveConfig(projects', nproj)
  /\ UNCHANGED <<status, nproj, daemonSpunUp, clock, envVars, wf, daemon, startMsgs,
                 readyMsgs, backendsStarted, xVars>>

\* Update, key "enter": the returned command runs runDailyWorkflow on a copy of
\* the model (its own cursor and slice header, the shared backing array).
KeyEnter ==
  /\ Running
  /\ nproj > 0
  /\ clock' = clock + 1
  /\ LET opened == [projects EXCEPT ![cursor + 1].LastOpened = clock']
         selectedPath == projects[cursor + 1].Path
     IN  IF selectedPath # ""
         THEN /\ \E w \in Workflows :
                   /\ wf[w].pc = "idle"
                   /\ \A v \in Workflows : v < w => wf[v].pc # "idle"
                   /\ wf' = [wf EXCEPT ![w] =
                               [IdleWf EXCEPT !.pc = "begin", !.cursor = cursor,
                                              !.n = nproj, !.selectedPath = selectedPath]]
              /\ projects' = opened
              /\ UNCHANGED <<cursor, saved>>
         ELSE /\ projects' \in sortProjects(opened, nproj)
              /\ cursor' = IF cursor >= nproj THEN 0 ELSE cursor
              /\ saved' = saveConfig(projects', nproj)
              /\ UNCHANGED wf
  /\ UNCHANGED <<status, nproj, daemonSpunUp, envVars, daemon, startMsgs, readyMsgs,
                 backendsStarted, xVars>>

\* Update, key "t": the returned command yields a StartDaemonMsg.
KeyT ==
  /\ Running
  /\ startMsgs + Cardinality({d \in Daemons : daemon[d].rpc # "none"}) < MaxStarts
  /\ startMsgs' = startMsgs + 1
  /\ UNCHANGED <<status, uiVars, envVars, wf, daemon, readyMsgs, backendsStarted, xVars>>

\* ------------------------------------------------------ daily workflow
\* The command of key "enter" ends: runDailyWorkflow has returned (its locals
\* are gone) and the command returns DaemonReadyMsg{}.
Finished(rec) ==
  [rec EXCEPT !.pc = "done", !.i = 0, !.yesterdayPath = NoPath,
              !.contentToMigrate = <<>>, !.refSeen = IdleWf.refSeen]

\* runDailyWorkflow up to and including createDailyNote's two os.Stat calls:
\* the root check, the paths, the reference note's section, the existence check.
WfBegin(w) ==
  /\ Running
  /\ wf[w].pc = "begin"
  /\ LET projectPath == wf[w].selectedPath
         last == projects[wf[w].cursor + 1].LastFileCreated
         yesterdayPath == IF Len(last) > 0 THEN last ELSE NotePath(projectPath, day - 1)
         todayPath == NotePath(projectPath, day)
         contentToMigrate == IF Stat(yesterdayPath)
                             THEN extractSection(files[yesterdayPath], SourceHeader)
                             ELSE <<>>
         seen == IF yesterdayPath \in DOMAIN files
                 THEN [exists |-> TRUE, lines |-> files[yesterdayPath]]
                 ELSE [exists |-> FALSE, lines |-> <<>>]
     IN  IF ~RootExists(projectPath)
         THEN /\ wf' = [wf EXCEPT ![w] = Finished(@)]
              /\ readyMsgs' = readyMsgs + 1
         ELSE /\ wf' = [wf EXCEPT ![w] =
                          [@ EXCEPT !.pc = IF Stat(todayPath) THEN "attach" ELSE "create",
                                    !.rootOk = TRUE,
                                    !.todayPath = todayPath,
                                    !.yesterdayPath = yesterdayPath,
                                    !.contentToMigrate = contentToMigrate,
                                    !.refSeen = seen,
                                    !.todayExisted = todayPath \in DOMAIN files]]
              /\ UNCHANGED readyMsgs
  /\ UNCHANGED <<status, uiVars, envVars, daemon, startMsgs, backendsStarted, xVars>>

\* createDailyNote from os.Create on: the file is created (and truncated) or
\* the call returns; the note is written, flushed and closed with every error
\* dropped, the linkage shifted and saved. On a faulty disk only the first
\* `written` lines reach the file, and the close may fail as well.
WfCreate(w) ==
  /\ Running
  /\ wf[w].pc = "create"
  /\ LET lines == NoteLines(day, wf[w].contentToMigrate)
         c == wf[w].cursor + 1
     IN  \E createOk \in BOOLEAN, written \in 0..Len(lines), closeOk \in BOOLEAN :
           /\ (~diskFaulty \/ ~createOk) => (written = Len(lines) /\ closeOk)
           /\ projects' = [projects EXCEPT ![c] =
                             Materialized(@, wf[w].todayPath, ~createOk)]
           /\ IF createOk
              THEN /\ files' = (wf[w].todayPath :> SubSeq(lines, 1, written)) @@ files
                   /\ saved' = saveConfig(projects', wf[w].n)
                   /\ wf' = [wf EXCEPT ![w].pc = "attach", ![w].created = TRUE,
                                       ![w].ioOk = (written = Len(lines) /\ closeOk)]
              ELSE /\ wf' = [wf EXCEPT ![w].pc = "attach", ![w].createErr = TRUE]
                   /\ UNCHANGED <<files, saved>>
  /\ UNCHANGED <<status, nproj, cursor, daemonSpunUp, clock, day, roots, diskFaulty,
                 daemon, startMsgs, readyMsgs, backendsStarted, xVars>>

\* The first openEmacs call of runDailyWorkflow; attachable is whether
\* emacsclient reaches the backend (cmd.Run returns no error).
WfAttach(w) ==
  /\ Running
  /\ wf[w].pc = "attach"
  /\ \E attachable \in BOOLEAN :
       LET rec == [wf[w] EXCEPT !.attempts = 1, !.opened = attachable, !.i = 0]
       IN  IF ~rec.opened /\ rec.i < RetryLimit
           THEN /\ wf' = [wf EXCEPT ![w] = [rec EXCEPT !.pc = "retry"]]
                /\ UNCHANGED readyMsgs
           ELSE /\ wf' = [wf EXCEPT ![w] = Finished(rec)]
                /\ readyMsgs' = readyMsgs + 1
  /\ UNCHANGED <<status, uiVars, envVars, daemon, startMsgs, backendsStarted, xVars>>

\* One round of the retry loop: time.Sleep, openEmacs, i++, and the loop test.
WfRetry(w) ==
  /\ Running
  /\ wf[w].pc = "retry"
  /\ \E attachable \in BOOLEAN :
       LET rec == [wf[w] EXCEPT !.sleeps = @ + 1, !.attempts = @ + 1,
                                !.opened = attachable, !.i = @ + 1]
       IN  IF ~rec.opened /\ rec.i < RetryLimit
           THEN /\ wf' = [wf EXCEPT ![w] = rec]
                /\ UNCHANGED readyMsgs
           ELSE /\ wf' = [wf EXCEPT ![w] = Finished(rec)]
                /\ readyMsgs' = readyMsgs + 1
  /\ UNCHANGED <<status, uiVars, envVars, daemon, startMsgs, backendsStarted, xVars>>

\* --------------------------------------------------- backend lifecycle
\* runEmacsDaemon up to cmd.Start(): the log file is created or the goroutine
\* panics; the backend process starts or not (the error is dropped, and the
\* stderr pipe is then at end of file).
DaemonStart(d) ==
  /\ Running
  /\ daemon[d].rpc = "init"
  /\ \E logCreated \in BOOLEAN, started \in BOOLEAN :
       IF ~logCreated
       THEN /\ status' = "panicked"
            /\ UNCHANGED <<daemon, backendsStarted>>
       ELSE /\ daemon' = [daemon EXCEPT ![d].rpc = IF started THEN "scan" ELSE "eof"]
            /\ backendsStarted' = backendsStarted + (IF started THEN 1 ELSE 0)
            /\ UNCHANGED status
  /\ UNCHANGED <<uiVars, envVars, wf, startMsgs, readyMsgs, xVars>>

\* scanner.Scan() yields a line: on a line containing the marker the reader
\* goes on to send on the channel. markerLines and firstMarker record the
\* stream: how many lines held the marker, and which line was the first.
DaemonScanLine(d) ==
  /\ Running
  /\ daemon[d].rpc = "scan"
  /\ daemon[d].linesRead < MaxStreamLen
  /\ \E line \in StderrLines :
       LET n == daemon[d].linesRead + 1
           marker == \E i \in 1..Len(line) :
                       /\ i + 3 <= Len(line)
                       /\ <<line[i], line[i + 1], line[i + 2], line[i + 3]>>
                            = <<"Doom", " ", "loaded", " ">>
       IN  daemon' = [daemon EXCEPT
                        ![d].linesRead = n,
                        ![d].rpc = IF Contains(line, DoomLoadedMsg) THEN "send" ELSE "scan",
                        ![d].markerLines = @ + (IF marker THEN 1 ELSE 0),
                        ![d].firstMarker = IF marker /\ @ = 0 THEN n ELSE @]
  /\ UNCHANGED <<status, uiVars, envVars, wf, startMsgs, readyMsgs, backendsStarted, xVars>>

\* The send on the unbuffered channel meets the command's receive: the command
\* gets SuccessMsg and returns DaemonReadyMsg{}; the reader scans on
\* (DaemonSignalRepeated: a receiver that takes every send).
DaemonSignalRepeated(d) ==
  /\ Running
  /\ daemon[d].rpc = "send"
  /\ daemon' = [daemon EXCEPT ![d].rpc = "scan", ![d].wpc = "ready",
                              ![d].signals = @ + 1, ![d].readyAt = daemon[d].linesRead]
  /\ readyMsgs' = readyMsgs + 1
  /\ UNCHANGED <<status, uiVars, envVars, wf, startMsgs, backendsStarted, xVars>>

DaemonSignal(d) ==
  /\ Running
  /\ daemon[d].rpc = "send"
  /\ daemon[d].wpc = "waiting"
  /\ daemon' = [daemon EXCEPT ![d].rpc = "scan", ![d].wpc = "ready",
                              ![d].signals = @ + 1, ![d].readyAt = daemon[d].linesRead]
  /\ readyMsgs' = readyMsgs + 1
  /\ UNCHANGED <<status, uiVars, envVars, wf, startMsgs, backendsStarted, xVars>>

\* scanner.Scan() returns false (end of the stream): cmd.Wait() and return.
DaemonEndOfStream(d) ==
  /\ Running
  /\ daemon[d].rpc \in {"scan", "eof"}
  /\ daemon' = [daemon EXCEPT ![d].rpc = "exited"]
  /\ UNCHANGED <<status, uiVars, envVars, wf, startMsgs, readyMsgs, backendsStarted, xVars>>

\* --------------------------------------------------------- environment
\* Midnight passes.
NextDay ==
  /\ Running
  /\ day < MaxDay
  /\ day' = day + 1
  /\ UNCHANGED <<status, uiVars, roots, files, diskFaulty, wf, daemon, startMsgs,
                 readyMsgs, backendsStarted, xVars>>

\* The user rewrites a note of the current day in the editor.
UserEdit ==
  /\ Running
  /\ \E path \in DOMAIN files, note \in UserNotes :
       /\ path[2] = day
       /\ files' = [files EXCEPT ![path] = note]
  /\ UNCHANGED <<status, uiVars, day, roots, diskFaulty, wf, daemon, startMsgs,
                 readyMsgs, backendsStarted, xVars>>

\* A note of the current day is lost: deleted or renamed outside the program.
UserDelete ==
  /\ Running
  /\ \E path \in DOMAIN files :
       /\ path[2] = day
       /\ files' = [q \in DOMAIN files \ {path} |-> files[q]]
  /\ UNCHANGED <<status, uiVars, day, roots, diskFaulty, wf, daemon, startMsgs,
                 readyMsgs, backendsStarted, xVars>>

\* The disk starts to fail writes.
DiskFault ==
  /\ Running
  /\ ~diskFaulty
  /\ diskFaulty' = TRUE
  /\ UNCHANGED <<status, uiVars, day, roots, files, wf, daemon, startMsgs,
                 readyMsgs, backendsStarted, xVars>>

\* ------------------------------------------------------- specification
Init ==
  /\ status = "running"
  /\ projects = LoadedProjects
  /\ nproj = Len(LoadedProjects)
  /\ cursor = 0
  /\ daemonSpunUp = FALSE
  /\ saved = saveConfig(LoadedProjects, Len(LoadedProjects))
  /\ clock = 2
  /\ day = 1
  /\ roots = {"p1"}
  /\ files = <<>>
  /\ diskFaulty = FALSE
  /\ wf = [w \in Workflows |-> IdleWf]
  /\ daemon = [d \in Daemons |-> IdleDaemon]
  /\ startMsgs = 1
  /\ readyMsgs = 0
  /\ backendsStarted = 0
  /\ xfile = <<>>
  /\ xmarker = SourceHeader
  /\ xlines = <<>>
  /\ xdone = FALSE

Next ==
  \/ UpdateStartDaemonMsg
  \/ UpdateDaemonReadyMsg
  \/ KeyQuit
  \/ KeyUp
  \/ KeyDown
  \/ KeyDelete
  \/ KeyStar
  \/ KeyEnter
  \/ KeyT
  \/ \E w \in Workflows : WfBegin(w)
  \/ \E w \in Workflows : WfCreate(w)
  \/ \E w \in Workflows : WfAttach(w)
  \/ \E w \in Workflows : WfRetry(w)
  \/ \E d \in Daemons : DaemonStart(d)
  \/ \E d \in Daemons : DaemonScanLine(d)
  \/ \E d \in Daemons : DaemonSignal(d)
  \/ \E d \in Daemons : DaemonEndOfStream(d)
  \/ NextDay
  \/ UserEdit
  \/ UserDelete
  \/ DiskFault

Spec == Init /\ [][Next]_vars

\* The notes half of the program: choosing and opening a project, the daily
\* workflow and the note files; the list is neither re-sorted nor shortened and
\* the backend is left as Init has it.
NextNotes ==
  \/ KeyUp
  \/ KeyDown
  \/ KeyEnter
  \/ \E w \in Workflows : WfBegin(w)
  \/ \E w \in Workflows : WfCreate(w)
  \/ \E w \in Workflows : WfAttach(w)
  \/ \E w \in Workflows : WfRetry(w)
  \/ NextDay
  \/ UserEdit

SpecNotes == Init /\ [][NextNotes]_vars

\* The backend half: the start command and its reader, and the status line;
\* the project list and the notes are left as Init has them.
NextDaemon ==
  \/ UpdateStartDaemonMsg
  \/ UpdateDaemonReadyMsg
  \/ KeyT
  \/ \E d \in Daemons : DaemonStart(d)
  \/ \E d \in Daemons : DaemonScanLine(d)
  \/ \E d \in Daemons : DaemonSignal(d)
  \/ \E d \in Daemons : DaemonEndOfStream(d)

SpecDaemon == Init /\ [][NextDaemon]_vars

\* The status line with everything that reports to it: the backend started at
\* program start and the workflows; key "t", the calendar and the editor are
\* left out.
NextStatus ==
  \/ UpdateStartDaemonMsg
  \/ UpdateDaemonReadyMsg
  \/ KeyDown
  \/ KeyEnter
  \/ \E w \in Workflows : WfBegin(w)
  \/ \E w \in Workflows : WfCreate(w)
  \/ \E w \in Workflows : WfAttach(w)
  \/ \E w \in Workflows : WfRetry(w)
  \/ \E d \in Daemons : DaemonStart(d)
  \/ \E d \in Daemons : DaemonScanLine(d)
  \/ \E d \in Daemons : DaemonSignal(d)
  \/ \E d \in Daemons : DaemonEndOfStream(d)

SpecStatus == Init /\ [][NextStatus]_vars

\* The materializer on a disk that may start to fail: opening the first
\* project and the daily workflow, on one day.
NextFaults ==
  \/ KeyEnter
  \/ \E w \in Workflows : WfBegin(w)
  \/ \E w \in Workflows : WfCreate(w)
  \/ \E w \in Workflows : WfAttach(w)
  \/ \E w \in Workflows : WfRetry(w)
  \/ DiskFault

SpecFaults == Init /\ [][NextFaults]_vars

\* The project list under the workflows: starring and deleting entries while
\* the commands of key "enter" run, on one day.
NextRegistry ==
  \/ KeyDown
  \/ KeyDelete
  \/ KeyStar
  \/ KeyEnter
  \/ \E w \in Workflows : WfBegin(w)
  \/ \E w \in Workflows : WfCreate(w)
  \/ \E w \in Workflows : WfAttach(w)
  \/ \E w \in Workflows : WfRetry(w)

SpecRegistry == Init /\ [][NextRegistry]_vars

\* Notes that get lost: the workflows of the first project over the days,
\* with notes deleted outside the program.
NextLost ==
  \/ KeyEnter
  \/ \E w \in Workflows : WfBegin(w)
  \/ \E w \in Workflows : WfCreate(w)
  \/ \E w \in Workflows : WfAttach(w)
  \/ \E w \in Workflows : WfRetry(w)
  \/ NextDay
  \/ UserDelete

SpecLost == Init /\ [][NextLost]_vars

\* A call of extractSection on any file of up to MaxFileLen lines.
ExtractLines ==
  { SourceHeader,
    <<" ", " ">> \o SourceHeader \o <<" ">>,
    DestinationHeader,
    <<"-", " ", "task1">>,
    <<"*", "*", " ", "sub">>,
    EmptyLine }

ExtractFiles == UNION { [1..n -> ExtractLines] : n \in 0..MaxFileLen }

InitExtract ==
  /\ status = "running"
  /\ projects = LoadedProjects
  /\ nproj = Len(LoadedProjects)
  /\ cursor = 0
  /\ daemonSpunUp = FALSE
  /\ saved = saveConfig(LoadedProjects, Len(LoadedProjects))
  /\ clock = 2
  /\ day = 1
  /\ roots = {"p1"}
  /\ files = <<>>
  /\ diskFaulty = FALSE
  /\ wf = [w \in Workflows |-> IdleWf]
  /\ daemon = [d \in Daemons |-> IdleDaemon]
  /\ startMsgs = 1
  /\ readyMsgs = 0
  /\ backendsStarted = 0
  /\ xfile \in ExtractFiles
  /\ xmarker \in {SourceHeader, DestinationHeader}
  /\ xlines = <<>>
  /\ xdone = FALSE

ExtractCall ==
  /\ ~xdone
  /\ xlines' = extractSection(xfile, xmarker)
  /\ xdone' = TRUE
  /\ UNCHANGED <<status, uiVars, envVars, wf, daemon, startMsgs, readyMsgs,
                 backendsStarted, xfile, xmarker>>

NextExtract == ExtractCall

SpecExtract == InitExtract /\ [][NextExtract]_vars

\* ===================================================================
\* Properties
\* ===================================================================

\* The section of a note as the specification defines it: the lines strictly
\* after the first line whose trimmed content is the marker, up to the next
\* line that begins with "* " (or the end of the file).
MarkerLines(file, marker) == {i \in 1..Len(file) : TrimSpace(file[i]) = marker}

HasSection(file, marker) == MarkerLines(file, marker) # {}

SectionOf(file, marker) ==
  IF ~HasSection(file, marker) THEN <<>>
  ELSE LET first == CHOOSE i \in MarkerLines(file, marker) :
                      \A k \in MarkerLines(file, marker) : i <= k
           ends == {j \in (first + 1)..Len(file) : HasPrefix(file[j], TopLevelPrefix)}
           stop == IF ends = {} THEN Len(file) + 1
                   ELSE CHOOSE j \in ends : \A k \in ends : j <= k
       IN  SubSeq(file, first + 1, stop - 1)

\* The to-do section of a generated note, without the blank line that
\* separates it from the next header.
TodoLines(note) ==
  LET section == SectionOf(note, DestinationHeader)
  IN  IF section # <<>> /\ section[Len(section)] = EmptyLine
      THEN SubSeq(section, 1, Len(section) - 1)
      ELSE section

\* The step in which workflow w creates today's note.
Creates(w) == ~wf[w].created /\ wf'[w].created

SameLinkage(p, q) ==
  /\ p.LastFileCreated = q.LastFileCreated
  /\ p.PreviousFileCreated = q.PreviousFileCreated

\* C1: a workflow that finds today's note on disk writes nothing: in each of
\* its steps the files, the project records and the saved registry stay as
\* they are, and it never creates the note.
C1_ExistingNoteIsNoOp ==
  [][\A w \in Workflows :
       (wf'[w] # wf[w] /\ wf'[w].todayExisted) =>
         /\ files' = files
         /\ projects' = projects
         /\ saved' = saved
         /\ ~wf'[w].created]_vars

\* C1 witness: two materializations of the same todayPath, one after the
\* other: the first wrote the note, the second found it and has finished
\* without writing.
C1_Witness ==
  \E v, w \in Workflows :
    /\ v # w
    /\ wf[v].created
    /\ wf[w].pc = "done" /\ wf[w].todayExisted /\ ~wf[w].created
    /\ wf[w].todayPath = wf[v].todayPath

C3_LinkageShift ==
  [][\A w \in Workflows :
       wf'[w] # wf[w] =>
         IF Creates(w)
         THEN LET c == wf[w].cursor + 1
              IN  /\ projects'[c].PreviousFileCreated = projects[c].LastFileCreated
                  /\ projects'[c].LastFileCreated = wf[w].todayPath
                  /\ \A k \in 1..Len(projects) : k # c => projects'[k] = projects[k]
         ELSE \A k \in 1..Len(projects) : SameLinkage(projects'[k], projects[k])]_vars

\* C3 witness: the second day's note has been created after the first day's:
\* last is the note of day 2 and previous the note of day 1.
C3_Witness ==
  \E k \in 1..Len(projects) :
    /\ projects[k].LastFileCreated = NotePath("p1", 2)
    /\ projects[k].PreviousFileCreated = NotePath("p1", 1)

\* C4 (as claimed): extractSection returns the section of the file: the lines
\* after the first marker line up to the next line that begins with "* ".
C4_ExtractIsSection ==
  xdone => xlines = SectionOf(xfile, xmarker)

\* C5 (as claimed): when today's note is created from a reference note whose
\* unfinished-work section is not empty, the to-do section of the new note
\* holds exactly the lines of that section.
C5_MigrationRoundTrip ==
  [][\A w \in Workflows :
       (/\ Creates(w)
        /\ wf[w].refSeen.exists
        /\ SectionOf(wf[w].refSeen.lines, SourceHeader) # <<>>) =>
         TodoLines(files'[wf[w].todayPath]) = SectionOf(wf[w].refSeen.lines, SourceHeader)]_vars

\* C6: when today's note is created and the reference note is missing or has
\* no unfinished-work header, the to-do section of the new note is the one
\* placeholder checkbox line.
C6_PlaceholderFallback ==
  [][\A w \in Workflows :
       (/\ Creates(w)
        /\ (~wf[w].refSeen.exists \/ ~HasSection(wf[w].refSeen.lines, SourceHeader))) =>
         TodoLines(files'[wf[w].todayPath]) = <<PlaceholderLine>>]_vars

\* C6 witness: one workflow has created its note with no reference note on
\* disk, another from a reference note without the header; both notes hold
\* the placeholder.
C6_Witness ==
  \E v, w \in Workflows :
    /\ wf[v].created /\ wf[v].pc # "done" /\ ~wf[v].refSeen.exists
    /\ wf[w].created /\ wf[w].pc # "done" /\ wf[w].refSeen.exists
    /\ ~HasSection(wf[w].refSeen.lines, SourceHeader)
    /\ wf[w].todayPath \in DOMAIN files
    /\ TodoLines(files[wf[w].todayPath]) = <<PlaceholderLine>>

\* C7 (as claimed): the wait for the backend ends: once the reader has reached
\* the end of the stream, the command that waits is Ready or TimedOut.
C7_WaitTerminates ==
  \A d \in Daemons :
    daemon[d].rpc = "exited" => daemon[d].wpc \in {"ready", "timedout"}

\* C8 (as claimed): at most one backend process is ever started.
C8_OneBackend == backendsStarted <= 1

\* C9 (as claimed): the status line shows ONLINE only if a line containing
\* the marker has been read from a backend's stderr.
C9_OnlineOnlyAfterMarker ==
  daemonSpunUp => \E d \in Daemons : daemon[d].markerLines > 0

\* C10: a start command reports ready at most once, and it does so at the
\* first line that contains the marker: once the reader is past that line the
\* command has reported, however many marker lines follow.
C10_ReadyOnceAtFirstMarker ==
  \A d \in Daemons :
    /\ daemon[d].signals <= 1
    /\ daemon[d].signals = 1 =>
         daemon[d].firstMarker > 0 /\ daemon[d].readyAt = daemon[d].firstMarker
    /\ (/\ daemon[d].firstMarker > 0
        /\ (daemon[d].linesRead > daemon[d].firstMarker \/ daemon[d].rpc # "send")) =>
         daemon[d].signals = 1 /\ daemon[d].wpc = "ready"

\* C10 witness: two lines with the marker have been read and the command has
\* reported once.
C10_Witness ==
  \E d \in Daemons : daemon[d].markerLines = 2 /\ daemon[d].signals = 1

\* C11 (as claimed): the reader is never held in a send on the channel that
\* nobody will receive: whenever it is about to send, the command is still
\* waiting in its receive.
C11_ReaderNeverStuck ==
  \A d \in Daemons : daemon[d].rpc = "send" => daemon[d].wpc = "waiting"

\* C12 (as claimed): a workflow whose os.Create of today's note failed makes
\* no attach attempt.
C12_NoAttachAfterCreateError ==
  \A w \in Workflows : wf[w].createErr => wf[w].attempts = 0

\* C13: the step in which os.Create of today's note fails changes no project
\* record, no file and not the saved registry, and from then on the workflow
\* never goes back to creating the note nor marks it created.
C13_CreateErrorLeavesState ==
  [][\A w \in Workflows :
       /\ (wf[w].pc = "create" /\ wf'[w].createErr) =>
            /\ projects' = projects
            /\ saved' = saved
            /\ files' = files
       /\ wf[w].createErr =>
            /\ wf'[w].createErr
            /\ wf'[w].pc # "create"
            /\ ~wf'[w].created]_vars

\* C13 witness: a workflow whose os.Create failed has run to its end, with
\* the record it worked on still without linkage and no note on disk.
C13_Witness ==
  \E w \in Workflows :
    /\ wf[w].createErr /\ wf[w].pc = "done"
    /\ projects[wf[w].cursor + 1].LastFileCreated = NoPath
    /\ wf[w].todayPath \notin DOMAIN files

\* C14 (as claimed): the linkage is shifted for a new note only if every write,
\* the flush and the close succeeded, and the note then on disk is complete
\* (it ends with the unfinished-work header).
C14_ShiftOnlyAfterCleanClose ==
  [][\A w \in Workflows :
       Creates(w) =>
         /\ wf'[w].ioOk
         /\ files'[wf[w].todayPath] # <<>>
         /\ files'[wf[w].todayPath][Len(files'[wf[w].todayPath])] = SourceHeader]_vars

\* C15 (as claimed): the host process is never brought down by a panic.
C15_NeverPanics == status # "panicked"

\* C16: a workflow that finds its project root missing ends on the spot: it
\* creates no file, changes no project record, saves nothing, makes no attach
\* attempt, and does nothing afterwards.
C16_MissingRootAborts ==
  [][\A w \in Workflows :
       /\ (wf[w].pc = "begin" /\ wf'[w] # wf[w] /\ wf[w].selectedPath \notin roots) =>
            /\ wf'[w].pc = "done"
            /\ wf'[w].attempts = 0
            /\ ~wf'[w].created /\ ~wf'[w].createErr
            /\ files' = files
            /\ projects' = projects
            /\ saved' = saved
       /\ wf[w].pc = "done" => wf'[w] = wf[w]]_vars

\* C16 witness: the workflow for p2, whose directory does not exist, has
\* ended without an attach attempt while the workflow for p1 created a note.
C16_Witness ==
  \E v, w \in Workflows :
    /\ wf[w].pc = "done" /\ wf[w].selectedPath = "p2" /\ "p2" \notin roots
    /\ wf[w].attempts = 0 /\ ~wf[w].rootOk
    /\ wf[v].created /\ wf[v].selectedPath = "p1"

\* C17: the step that creates today's note saves the shifted linkage in the
\* same step and comes before any attach attempt; when the first attempt is
\* made the materializer has returned (note found, note created, or create
\* failed); and once a workflow has made an attempt it writes no file and
\* saves nothing.
C17_MaterializeBeforeAttach ==
  [][\A w \in Workflows :
       LET c == wf[w].cursor + 1
       IN  /\ Creates(w) =>
                /\ wf'[w].attempts = 0
                /\ saved'[c].LastFileCreated = wf[w].todayPath
                /\ saved'[c].PreviousFileCreated = projects[c].LastFileCreated
           /\ (wf[w].attempts = 0 /\ wf'[w].attempts > 0) =>
                wf[w].todayExisted \/ wf[w].created \/ wf[w].createErr
           /\ (wf[w].attempts > 0 /\ wf'[w] # wf[w]) =>
                /\ wf'[w].created = wf[w].created
                /\ files' = files
                /\ saved' = saved]_vars

\* C17 witness: a workflow that created its note is in the retry loop, and the
\* saved registry names that note as the record's last file.
C17_Witness ==
  \E w \in Workflows :
    /\ wf[w].created /\ wf[w].pc = "retry" /\ wf[w].attempts > 0
    /\ saved[wf[w].cursor + 1].LastFileCreated = wf[w].todayPath

\* C18 (as claimed): a workflow never creates (and so truncates) today's note
\* when the note is on disk: the step that creates it finds the path free.
C18_CreateNeverClobbers ==
  [][\A w \in Workflows : Creates(w) => wf[w].todayPath \notin DOMAIN files]_vars

\* The steps in which workflow w uses the record at its cursor: it reads the
\* linkage for the reference note, shifts the linkage, or passes the linkage
\* to an attach attempt.
UsesRecord(w) ==
  \/ wf[w].pc = "begin" /\ wf'[w].rootOk
  \/ Creates(w)
  \/ wf'[w].attempts > wf[w].attempts

\* C19 (as claimed): whenever a workflow uses the record at its cursor, that
\* record is the one of the project selected when the workflow was invoked.
C19_RecordOfSelectedProject ==
  [][\A w \in Workflows :
       UsesRecord(w) => projects[wf[w].cursor + 1].Path = wf[w].selectedPath]_vars

\* C20 (as claimed): a record whose lastFileCreated is set names a different
\* note as previousFileCreated.
C20_PreviousDiffersFromLast ==
  \A k \in 1..Len(projects) :
    projects[k].LastFileCreated # NoPath =>
      projects[k].PreviousFileCreated # projects[k].LastFileCreated

====
